---------------------------- MODULE Spec2Model ----------------------------
(***************************************************************************)
(* A model of graphml2gedcom.py: the conversion of a yEd family tree       *)
(* (graphml) into a gedcom text.                                           *)
(*                                                                         *)
(* Strings of the input (node ids, label texts) are sequences of           *)
(* characters, each character a one-character string.  A run of letters    *)
(* that no pattern of the program tells apart ("John") may stand as one    *)
(* element.  The dagger U+2020 is written Dagger.  The rendered text is a  *)
(* sequence of pieces: a piece is either the newline NL or a whole,        *)
(* non-empty line without a newline; the empty string is the empty         *)
(* sequence.                                                               *)
(***************************************************************************)
EXTENDS Integers, Sequences, FiniteSets, TLC

VARIABLES nodes, edges, pc, error, persons, families, relations, gedcom, output

vars == <<nodes, edges, pc, error, persons, families, relations, gedcom, output>>

\* ------------------------------------------------------------ characters

Dagger == "<U+2020>"
Star == "*"
NL == "\n"
Digits == {"0", "1", "2", "3", "4", "5", "6", "7", "8", "9"}
NonZeroDigits == Digits \ {"0"}
\* What str.strip() removes at both ends.
Whitespace == {" ", "\t", "\n", "\r"}

DigitVal(c) ==
    CASE c = "0" -> 0 [] c = "1" -> 1 [] c = "2" -> 2 [] c = "3" -> 3
      [] c = "4" -> 4 [] c = "5" -> 5 [] c = "6" -> 6 [] c = "7" -> 7
      [] c = "8" -> 8 [] c = "9" -> 9

\* int() of a string of decimal digits.
RECURSIVE DecVal(_)
DecVal(s) ==
    IF s = <<>> THEN 0
    ELSE 10 * DecVal(SubSeq(s, 1, Len(s) - 1)) + DigitVal(s[Len(s)])

AllDigits(s) == \A i \in 1..Len(s) : s[i] \in Digits

\* The characters of s as one string.
RECURSIVE Str(_)
Str(s) == IF s = <<>> THEN "" ELSE Head(s) \o Str(Tail(s))

\* str.strip()
RECURSIVE LStrip(_)
LStrip(s) ==
    IF s # <<>> /\ Head(s) \in Whitespace THEN LStrip(Tail(s)) ELSE s

RECURSIVE RStrip(_)
RStrip(s) ==
    IF s # <<>> /\ s[Len(s)] \in Whitespace
    THEN RStrip(SubSeq(s, 1, Len(s) - 1)) ELSE s

Strip(s) == RStrip(LStrip(s))

\* data.replace("\n", "")
RemoveNewlines(s) == SelectSeq(s, LAMBDA c : c # NL)

\* ----------------------------------------------------------------- dates

\* self.birth = None
NoDate == [day |-> 0, month |-> 0, year |-> 0]

IsLeap(y) == (y % 4 = 0 /\ y % 100 # 0) \/ y % 400 = 0

DaysInMonth(m, y) ==
    IF m = 2 THEN (IF IsLeap(y) THEN 29 ELSE 28)
    ELSE IF m \in {4, 6, 9, 11} THEN 30 ELSE 31

\* %d of strptime: 3[0-1]|[1-2]\d|0[1-9]|[1-9]| [1-9]
MatchDay(s) ==
    \/ /\ Len(s) = 2
       /\ \/ s[1] = "3" /\ s[2] \in {"0", "1"}
          \/ s[1] \in {"1", "2"} /\ s[2] \in Digits
          \/ s[1] = "0" /\ s[2] \in NonZeroDigits
          \/ s[1] = " " /\ s[2] \in NonZeroDigits
    \/ Len(s) = 1 /\ s[1] \in NonZeroDigits

\* %m of strptime: 1[0-2]|0[1-9]|[1-9]
MatchMonth(s) ==
    \/ /\ Len(s) = 2
       /\ \/ s[1] = "1" /\ s[2] \in {"0", "1", "2"}
          \/ s[1] = "0" /\ s[2] \in NonZeroDigits
    \/ Len(s) = 1 /\ s[1] \in NonZeroDigits

\* %Y of strptime: \d\d\d\d
MatchYear(s) == Len(s) = 4 /\ AllDigits(s)

\* The value of a matched %d or %m group: int() of it (int skips the blank).
FieldVal(s) == DecVal(SelectSeq(s, LAMBDA c : c # " "))

\* The splits of s as <day>.<month>.<year> that the pattern of "%d.%m.%Y"
\* matches with nothing left over.
DateSplits(s) ==
    {dm \in {1, 2} \X {1, 2} :
        /\ Len(s) = dm[1] + dm[2] + 6
        /\ MatchDay(SubSeq(s, 1, dm[1]))
        /\ s[dm[1] + 1] = "."
        /\ MatchMonth(SubSeq(s, dm[1] + 2, dm[1] + 1 + dm[2]))
        /\ s[dm[1] + dm[2] + 2] = "."
        /\ MatchYear(SubSeq(s, dm[1] + dm[2] + 3, Len(s)))}

\* strptime wrongly taking any day up to 31 in any month.
strptime_no_calendar(s) ==
    IF DateSplits(s) = {} THEN [ok |-> FALSE, date |-> NoDate]
    ELSE LET dm == CHOOSE x \in DateSplits(s) : TRUE
         IN  [ok |-> TRUE,
              date |-> [day |-> FieldVal(SubSeq(s, 1, dm[1])),
                        month |-> FieldVal(SubSeq(s, dm[1] + 2, dm[1] + 1 + dm[2])),
                        year |-> DecVal(SubSeq(s, dm[1] + dm[2] + 3, Len(s)))]]

\* datetime.datetime.strptime(s, "%d.%m.%Y"): ok is FALSE where it raises
\* ValueError (no match, data left over, or no such day of the calendar).
strptime(s) ==
    IF DateSplits(s) = {} THEN [ok |-> FALSE, date |-> NoDate]
    ELSE LET dm == CHOOSE x \in DateSplits(s) : TRUE
             d == FieldVal(SubSeq(s, 1, dm[1]))
             m == FieldVal(SubSeq(s, dm[1] + 2, dm[1] + 1 + dm[2]))
             y == DecVal(SubSeq(s, dm[1] + dm[2] + 3, Len(s)))
         IN  IF y >= 1 /\ d <= DaysInMonth(m, y)
             THEN [ok |-> TRUE, date |-> [day |-> d, month |-> m, year |-> y]]
             ELSE [ok |-> FALSE, date |-> NoDate]

MonthAbbr(m) ==
    CASE m = 1 -> "JAN" [] m = 2 -> "FEB" [] m = 3 -> "MAR" [] m = 4 -> "APR"
      [] m = 5 -> "MAY" [] m = 6 -> "JUN" [] m = 7 -> "JUL" [] m = 8 -> "AUG"
      [] m = 9 -> "SEP" [] m = 10 -> "OCT" [] m = 11 -> "NOV" [] m = 12 -> "DEC"

\* date.strftime("%d %b %Y").upper(): the day padded to two digits, the
\* year as the C library prints it (unpadded).
strftime(date) ==
    (IF date.day < 10 THEN "0" ELSE "") \o ToString(date.day) \o " "
        \o MonthAbbr(date.month) \o " " \o ToString(date.year)

\* ------------------------------------------------------- Person.parse_data

\* The longest prefix of s with no character c.
RECURSIVE UpTo(_, _)
UpTo(s, c) ==
    IF s = <<>> \/ Head(s) = c THEN <<>> ELSE <<Head(s)>> \o UpTo(Tail(s), c)

\* s without its first n characters.
Drop(s, n) == SubSeq(s, n + 1, Len(s))

\* An optional character c at the head of s: c? takes it when it is there.
SkipOpt(s, c) == IF s # <<>> /\ Head(s) = c THEN Tail(s) ELSE s

\* (?P<name>[^\*]*)\*?(?P<birth>[^U+2020]*)U+2020?(?P<death>.*) matched at the start of
\* data (which holds no newline).
REGEX_SPLIT_PERON_DATA(data) ==
    LET name == UpTo(data, Star)
        rest1 == SkipOpt(Drop(data, Len(name)), Star)
        birth == UpTo(rest1, Dagger)
        rest2 == SkipOpt(Drop(rest1, Len(birth)), Dagger)
    IN  [name |-> name, birth |-> birth, death |-> rest2]

\* The length of a match of \(\d+\) at the head of s, 0 when there is none.
PrefixMatchLen(s) ==
    IF s # <<>> /\ Head(s) = "("
    THEN LET digs == CHOOSE n \in 0..Len(s) :
                        /\ \A i \in 2..(n + 1) : i <= Len(s) /\ s[i] \in Digits
                        /\ (n + 2 > Len(s) \/ s[n + 2] \notin Digits)
         IN  IF digs >= 1 /\ digs + 2 <= Len(s) /\ s[digs + 2] = ")"
             THEN digs + 2 ELSE 0
    ELSE 0

\* The substitution wrongly taking the blank after a group with it.
RECURSIVE REGEX_NAME_PREFIX_sub_blank(_)
REGEX_NAME_PREFIX_sub_blank(s) ==
    IF s = <<>> THEN <<>>
    ELSE IF PrefixMatchLen(s) > 0
         THEN REGEX_NAME_PREFIX_sub_blank(
                  SkipOpt(Drop(s, PrefixMatchLen(s)), " "))
         ELSE <<Head(s)>> \o REGEX_NAME_PREFIX_sub_blank(Tail(s))

\* REGEX_NAME_PREFIX.sub("", s): every match of \(\d+\), left to right.
RECURSIVE REGEX_NAME_PREFIX_sub(_)
REGEX_NAME_PREFIX_sub(s) ==
    IF s = <<>> THEN <<>>
    ELSE IF PrefixMatchLen(s) > 0
         THEN REGEX_NAME_PREFIX_sub(Drop(s, PrefixMatchLen(s)))
         ELSE <<Head(s)>> \o REGEX_NAME_PREFIX_sub(Tail(s))

\* try: strptime(field.strip(), ...) except ValueError: None
parse_date(field) ==
    LET r == strptime(Strip(field)) IN IF r.ok THEN r.date ELSE NoDate

\* Person(id, data) with both dates wrongly parsed under one try: a birth
\* that fails leaves the death absent too.
parse_data_one_try(id, data) ==
    LET match == REGEX_SPLIT_PERON_DATA(RemoveNewlines(data))
    IN  [id |-> id,
         name |-> Strip(REGEX_NAME_PREFIX_sub(match.name)),
         birth |-> parse_date(match.birth),
         death |-> IF parse_date(match.birth) = NoDate THEN NoDate
                   ELSE parse_date(match.death)]

\* Person(id, data)
parse_data(id, data) ==
    LET match == REGEX_SPLIT_PERON_DATA(RemoveNewlines(data))
    IN  [id |-> id,
         name |-> Strip(REGEX_NAME_PREFIX_sub(match.name)),
         birth |-> parse_date(match.birth),
         death |-> parse_date(match.death)]

\* ------------------------------------------------------------- parsing

\* int(s) for s of digits, blanks and a sign (an id holds no underscore):
\* ok is FALSE where int raises ValueError.
int(s) ==
    LET t == Strip(s)
        u == IF t # <<>> /\ Head(t) \in {"+", "-"} THEN Tail(t) ELSE t
    IN  IF u # <<>> /\ AllDigits(u)
        THEN [ok |-> TRUE,
              val |-> IF Head(t) = "-" THEN 0 - DecVal(u) ELSE DecVal(u)]
        ELSE [ok |-> FALSE, val |-> 0]

\* id2int without its assertion.
id2int_no_assert(graphid) ==
    IF graphid = <<>> THEN [err |-> "IndexError", val |-> 0]
    ELSE IF int(Tail(graphid)).ok
         THEN [err |-> "none", val |-> int(Tail(graphid)).val]
         ELSE [err |-> "ValueError", val |-> 0]

\* id2int(graphid): err names the exception raised, "none" when it returns.
id2int(graphid) ==
    IF graphid = <<>> THEN [err |-> "IndexError", val |-> 0]
    ELSE IF graphid[1] \notin {"e", "n"}
         THEN [err |-> "AssertionError", val |-> 0]
         ELSE IF int(Tail(graphid)).ok
              THEN [err |-> "none", val |-> int(Tail(graphid)).val]
              ELSE [err |-> "ValueError", val |-> 0]

\* The first exception of a sequence of outcomes, "none" when there is none.
RECURSIVE FirstError(_)
FirstError(errs) ==
    IF errs = <<>> THEN "none"
    ELSE IF Head(errs) # "none" THEN Head(errs) ELSE FirstError(Tail(errs))

\* A NodeLabel element with no text has text None: label.text.strip() raises.
HasNoText(ns) ==
    \E i \in 1..Len(ns) : \E j \in 1..Len(ns[i].labels) : ns[i].labels[j].none

\* (id, [label.text for label in labels if len(label.text.strip()) > 0])
NonEmptyLabels(node) ==
    LET kept == SelectSeq(node.labels, LAMBDA l : Len(Strip(l.text)) > 0)
    IN  [id |-> node.id, texts |-> [j \in 1..Len(kept) |-> kept[j].text]]

NoNodes(err) == [err |-> err, persons |-> <<>>, families |-> <<>>]

\* parse_nodes(nodes): the persons and the families, or the exception.
parse_nodes(ns) ==
    IF HasNoText(ns) THEN NoNodes("AttributeError")
    ELSE
    LET labelled == [i \in 1..Len(ns) |-> NonEmptyLabels(ns[i])]
        ps == SelectSeq(labelled, LAMBDA x : Len(x.texts) > 0)
        fs == SelectSeq(labelled, LAMBDA x : Len(x.texts) = 0)
        perr == FirstError([i \in 1..Len(ps) |-> id2int(ps[i].id).err])
        ferr == FirstError([i \in 1..Len(fs) |-> id2int(fs[i].id).err])
    IN  IF Len(ns) # Len(ps) + Len(fs) THEN NoNodes("AssertionError")
        ELSE IF perr # "none" THEN NoNodes(perr)
        ELSE IF ferr # "none" THEN NoNodes(ferr)
        ELSE [err |-> "none",
              persons |-> [i \in 1..Len(ps) |->
                  parse_data(id2int(ps[i].id).val, Strip(ps[i].texts[1]))],
              families |-> [i \in 1..Len(fs) |-> [id |-> id2int(fs[i].id).val]]]

\* The outcome of Relation(id2int(id), id2int(source), id2int(target)).
EdgeError(edge) ==
    FirstError(<<id2int(edge.id).err, id2int(edge.source).err,
                 id2int(edge.target).err>>)

\* parse_edges(edges): the relations, or the exception.
parse_edges(es) ==
    LET err == FirstError([i \in 1..Len(es) |-> EdgeError(es[i])])
    IN  IF err # "none" THEN [err |-> err, relations |-> <<>>]
        ELSE [err |-> "none",
              relations |-> [i \in 1..Len(es) |->
                  [id |-> id2int(es[i].id).val,
                   source |-> id2int(es[i].source).val,
                   target |-> id2int(es[i].target).val]]]

\* parse_graphml(path), the document already read: nodes, then edges.
parse_graphml(ns, es) ==
    LET n == parse_nodes(ns)
        e == parse_edges(es)
    IN  IF n.err # "none"
        THEN [err |-> n.err, persons |-> <<>>, families |-> <<>>,
              relations |-> <<>>]
        ELSE IF e.err # "none"
        THEN [err |-> e.err, persons |-> <<>>, families |-> <<>>,
              relations |-> <<>>]
        ELSE [err |-> "none", persons |-> n.persons, families |-> n.families,
              relations |-> e.relations]

\* ----------------------------------------------------------- rendering

\* "\n".join(texts), each text a sequence of pieces.
RECURSIVE Join(_)
Join(texts) ==
    IF texts = <<>> THEN <<>>
    ELSE IF Len(texts) = 1 THEN texts[1]
    ELSE texts[1] \o <<NL>> \o Join(Tail(texts))

\* One line per element of xs, joined by newlines.
JoinLines(xs) == Join([i \in 1..Len(xs) |-> <<xs[i]>>])

\* The child links wrongly taken from the relations the person is the source
\* of.
create_child_gedcom_by_source(person_id, rels) ==
    LET mine == SelectSeq(rels, LAMBDA r : person_id = r.source)
    IN  JoinLines([i \in 1..Len(mine) |->
                      "1 FAMC @F" \o ToString(mine[i].source) \o "@"])

create_child_gedcom(person_id, rels) ==
    LET mine == SelectSeq(rels, LAMBDA r : person_id = r.target)
    IN  JoinLines([i \in 1..Len(mine) |->
                      "1 FAMC @F" \o ToString(mine[i].source) \o "@"])

create_spouse_gedcom(person_id, rels) ==
    LET mine == SelectSeq(rels, LAMBDA r : person_id = r.source)
    IN  JoinLines([i \in 1..Len(mine) |->
                      "1 FAMS @F" \o ToString(mine[i].target) \o "@"])

\* The entry of one person (the body of the loop of create_person_entries).
person_entry(person, rels) ==
    <<"0 @I" \o ToString(person.id) \o "@ INDI", NL,
      "1 NAME " \o Str(person.name)>>
    \o (IF person.birth # NoDate
        THEN <<NL, "1 BIRT", NL, "2 DATE " \o strftime(person.birth)>>
        ELSE <<>>)
    \o (IF person.death # NoDate
        THEN <<NL, "1 DEAT", NL, "2 DATE " \o strftime(person.death)>>
        ELSE <<>>)
    \o <<NL>> \o create_child_gedcom(person.id, rels)
    \o <<NL>> \o create_spouse_gedcom(person.id, rels)

create_person_entries(ps, rels) ==
    Join([i \in 1..Len(ps) |-> person_entry(ps[i], rels)])

\* The children and the spouses of a family wrongly taken for each other.
create_relations_gedcom_swapped(family_id, rels) ==
    LET children == SelectSeq(rels, LAMBDA r : r.target = family_id)
        spouses == SelectSeq(rels, LAMBDA r : r.source = family_id)
    IN  JoinLines([i \in 1..Len(children) |->
                      "1 CHIL @I" \o ToString(children[i].source) \o "@"])
        \o <<NL>> \o
        JoinLines([i \in 1..Len(spouses) |->
                      "1 HUSB @I" \o ToString(spouses[i].target) \o "@"])

create_relations_gedcom(family_id, rels) ==
    LET children == SelectSeq(rels, LAMBDA r : r.source = family_id)
        spouses == SelectSeq(rels, LAMBDA r : r.target = family_id)
    IN  JoinLines([i \in 1..Len(children) |->
                      "1 CHIL @I" \o ToString(children[i].target) \o "@"])
        \o <<NL>> \o
        JoinLines([i \in 1..Len(spouses) |->
                      "1 HUSB @I" \o ToString(spouses[i].source) \o "@"])

\* The entry of one family (the body of the loop of create_family_entries).
family_entry(family, rels) ==
    <<"0 @F" \o ToString(family.id) \o "@ FAM">>
    \o <<NL>> \o create_relations_gedcom(family.id, rels)

create_family_entries(fs, rels) ==
    Join([i \in 1..Len(fs) |-> family_entry(fs[i], rels)])

HEAD ==
    <<"0 HEAD", NL, "1 SOUR UNSPECIFIED", NL, "1 GEDC", NL, "2 VERS 5.5.1", NL,
      "2 FORM Lineage-Linked", NL, "1 CHAR UTF-8">>

create_gedcom(ps, fs, rels) ==
    HEAD \o <<NL>> \o create_person_entries(ps, rels)
         \o <<NL>> \o create_family_entries(fs, rels)
         \o <<NL, "0 TRLR">>

\* main without its replace pass.
replace_skipped(text) == text

\* text.replace("\n\n", "\n"): one pass from the left, the occurrences not
\* overlapping.
RECURSIVE replace(_)
replace(text) ==
    IF Len(text) >= 2 /\ text[1] = NL /\ text[2] = NL
    THEN <<NL>> \o replace(Drop(text, 2))
    ELSE IF text = <<>> THEN <<>>
    ELSE <<Head(text)>> \o replace(Tail(text))

\* ------------------------------------------------------------ the inputs

MaxChunks == 3
MaxNodes == 2
MaxEdges == 2

\* The sequences over S of length at most n.
SeqsUpTo(S, n) == UNION {[1..k -> S] : k \in 0..n}

RECURSIVE Concat(_)
Concat(ss) == IF ss = <<>> THEN <<>> ELSE Head(ss) \o Concat(Tail(ss))

Text(t) == [none |-> FALSE, text |-> t]
NoText == [none |-> TRUE, text |-> <<>>]

JohnSmith == <<"John", " ", "(", "2", ")", " ", "Smith">>
Date1920 == <<"0", "3", ".", "0", "3", ".", "1", "9", "2", "0">>
Date31Feb == <<"3", "1", ".", "0", "2", ".", "2", "0", "0", "0">>
Date1900 == <<"1", ".", "1", ".", "1", "9", "0", "0">>

\* The pieces labels are made of.
Vocabulary ==
    {JohnSmith, <<" ">>, <<Star>>, <<Dagger>>, <<NL>>,
     Date1920, Date31Feb, Date1900, <<Dagger>> \o Date1920}

NodeId(k) == <<"n", ToString(k)>>
EdgeId(k) == <<"e", ToString(k)>>

\* What a node of a well-formed tree carries: no label (a family), a name,
\* or a name with its dates.
NodeKinds ==
    {<<>>, <<Text(<<"A">>)>>,
     <<Text(<<"B", Star>> \o Date1920 \o <<Dagger>> \o Date1900)>>}

GraphNodes(kinds) ==
    [i \in 1..Len(kinds) |-> [id |-> NodeId(i - 1), labels |-> kinds[i]]]

GraphEdges(ends) ==
    [i \in 1..Len(ends) |->
        [id |-> EdgeId(i - 1), source |-> NodeId(ends[i][1]),
         target |-> NodeId(ends[i][2])]]

\* Ids as a document may hold them, and the label elements of a node.
NodeIdSet == {<<"n", "0">>, <<"e", "2">>, <<"x", "3">>, <<"n", "x">>}
LabelLists ==
    {<<>>, <<NoText>>, <<Text(<<" ">>)>>, <<Text(<<"A">>)>>,
     <<Text(<<" ">>), Text(<<"A">>)>>}
EdgeIdSet == {<<"e", "0">>, <<"n", "0">>, <<"x", "0">>}
SourceIdSet == {<<"n", "1">>, <<"e", "1">>}
TargetIdSet == {<<"n", "1">>, <<>>}

\* One node, its label any text of at most MaxChunks pieces (an element
\* without text has no text at all, never the empty text).
InitLabel ==
    \E cs \in SeqsUpTo(Vocabulary, MaxChunks) :
        /\ cs # <<>>
        /\ nodes = <<[id |-> NodeId(0), labels |-> <<Text(Concat(cs))>>]>>
        /\ edges = <<>>

\* The two ends of an edge: any two different ids below MaxNodes.
Ends ==
    {e \in (0..(MaxNodes - 1)) \X (0..(MaxNodes - 1)) : e[1] # e[2]}

\* Trees of at most MaxNodes nodes n0, n1, ... and at most MaxEdges edges
\* between any two of the ids below MaxNodes (so an edge may dangle).
InitGraph ==
    \E kinds \in SeqsUpTo(NodeKinds, MaxNodes) :
        \E ends \in SeqsUpTo(Ends, MaxEdges) :
            /\ nodes = GraphNodes(kinds)
            /\ edges = GraphEdges(ends)

\* Two persons married into one family that has one child relation: the
\* family at the place f among the nodes, the child relation at the place c
\* among the edges, the child any other id.
InitExample ==
    \E f \in 1..3, c \in 1..3, child \in 0..3 :
        LET spouses == (0..2) \ {f - 1}
            first == CHOOSE p \in spouses : \A q \in spouses : p <= q
            second == CHOOSE p \in spouses : p # first
        IN  /\ child # f - 1
            /\ nodes = GraphNodes([i \in 1..3 |->
                          IF i = f THEN <<>> ELSE <<Text(<<"A">>)>>])
            /\ edges = GraphEdges([i \in 1..3 |->
                          IF i = c THEN <<f - 1, child>>
                          ELSE IF i = (c % 3) + 1 THEN <<first, f - 1>>
                          ELSE <<second, f - 1>>])

\* Nodes of any id and any labels, the ids of a document differing.
InitNodes ==
    \E ns \in SeqsUpTo([id : NodeIdSet, labels : LabelLists], MaxNodes) :
        /\ \A i, j \in 1..Len(ns) : i # j => ns[i].id # ns[j].id
        /\ nodes = ns
        /\ edges = <<>>

\* Edges of any id and any ends.
InitEdges ==
    \E es \in SeqsUpTo([id : EdgeIdSet, source : SourceIdSet,
                        target : TargetIdSet], MaxEdges) :
        /\ nodes = <<>>
        /\ edges = es

\* ------------------------------------------------------------- the run

Init ==
    /\ InitLabel \/ InitGraph \/ InitExample \/ InitNodes \/ InitEdges
    /\ pc = "start"
    /\ error = "none"
    /\ persons = <<>>
    /\ families = <<>>
    /\ relations = <<>>
    /\ gedcom = <<>>
    /\ output = <<>>

\* main: persons, families, relations = parse_graphml(args.input); an
\* exception ends the run.
ParseGraphml ==
    /\ pc = "start"
    /\ LET r == parse_graphml(nodes, edges)
       IN  /\ pc' = IF r.err = "none" THEN "parsed" ELSE "failed"
           /\ error' = r.err
           /\ persons' = r.persons
           /\ families' = r.families
           /\ relations' = r.relations
    /\ UNCHANGED <<nodes, edges, gedcom, output>>

\* main: gedcom = create_gedcom(persons, families, relations)
CreateGedcom ==
    /\ pc = "parsed"
    /\ gedcom' = create_gedcom(persons, families, relations)
    /\ pc' = "created"
    /\ UNCHANGED <<nodes, edges, error, persons, families, relations, output>>

\* main: gedcom = gedcom.replace("\n\n", "\n"), printed or written.
WriteGedcom ==
    /\ pc = "created"
    /\ output' = replace(gedcom)
    /\ pc' = "written"
    /\ UNCHANGED <<nodes, edges, error, persons, families, relations, gedcom>>

Next == ParseGraphml \/ CreateGedcom \/ WriteGedcom

Spec == Init /\ [][Next]_vars

\* ------------------------------------------------- reading the results

Parsed == pc \in {"parsed", "created", "written"}

\* The lines of a text that are not empty.
Lines(text) == SelectSeq(text, LAMBDA x : x # NL)

Count(seq, x) == Cardinality({i \in 1..Len(seq) : seq[i] = x})

\* Whether text holds n newlines in a row.
HasNewlineRun(text, n) ==
    \E i \in 1..Len(text) :
        i + n - 1 <= Len(text) /\ \A j \in i..(i + n - 1) : text[j] = NL

IndiHead(id) == "0 @I" \o ToString(id) \o "@ INDI"
FamHead(id) == "0 @F" \o ToString(id) \o "@ FAM"
FamcLine(id) == "1 FAMC @F" \o ToString(id) \o "@"
FamsLine(id) == "1 FAMS @F" \o ToString(id) \o "@"
ChilLine(id) == "1 CHIL @I" \o ToString(id) \o "@"
HusbLine(id) == "1 HUSB @I" \o ToString(id) \o "@"

PersonIds == {persons[k].id : k \in 1..Len(persons)}
FamilyIds == {families[k].id : k \in 1..Len(families)}
\* Every id a line of the output may name.
EndIds ==
    PersonIds \cup FamilyIds
        \cup {relations[j].source : j \in 1..Len(relations)}
        \cup {relations[j].target : j \in 1..Len(relations)}

IndiHeads == {IndiHead(id) : id \in PersonIds}
FamHeads == {FamHead(id) : id \in FamilyIds}
Level0 == IndiHeads \cup FamHeads \cup {"0 HEAD", "0 TRLR"}

Positions(lines, S) == {i \in 1..Len(lines) : lines[i] \in S}

\* The k-th smallest element of a set of numbers.
Kth(S, k) == CHOOSE i \in S : Cardinality({j \in S : j < i}) = k - 1

\* The lines of the record whose level-0 line is lines[i].
Block(lines, i) ==
    LET later == {j \in Positions(lines, Level0) : j > i}
        stop == IF later = {} THEN Len(lines) + 1
                ELSE CHOOSE j \in later : \A h \in later : j <= h
    IN  SubSeq(lines, i + 1, stop - 1)

\* The record of the k-th person, of the k-th family, in the emitted text.
PersonRecord(k) ==
    LET lines == Lines(output)
    IN  Block(lines, Kth(Positions(lines, IndiHeads), k))
FamilyRecord(k) ==
    LET lines == Lines(output)
    IN  Block(lines, Kth(Positions(lines, FamHeads), k))

\* The number of relations from src to tgt.
Rels(src, tgt) ==
    Cardinality({j \in 1..Len(relations) :
        relations[j].source = src /\ relations[j].target = tgt})

\* The nodes parse_nodes takes for persons, and the label text of the k-th.
HasLabelText(node) ==
    \E j \in 1..Len(node.labels) :
        ~node.labels[j].none /\ Strip(node.labels[j].text) # <<>>
PersonNodes == SelectSeq(nodes, HasLabelText)
Data(k) ==
    LET ls == PersonNodes[k].labels
        j == CHOOSE j \in 1..Len(ls) :
                /\ Strip(ls[j].text) # <<>>
                /\ \A h \in 1..(j - 1) : Strip(ls[h].text) = <<>>
    IN  RemoveNewlines(Strip(ls[j].text))

\* The place of the first c in s, 0 when s holds none.
FirstPos(s, c) ==
    IF \E i \in 1..Len(s) : s[i] = c
    THEN CHOOSE i \in 1..Len(s) : s[i] = c /\ \A h \in 1..(i - 1) : s[h] # c
    ELSE 0

\* The three fields as the markers cut a label: before the first star, from
\* it to the dagger, after the first dagger.
BeforeStar(s) ==
    IF FirstPos(s, Star) = 0 THEN s ELSE SubSeq(s, 1, FirstPos(s, Star) - 1)
AfterDagger(s) ==
    IF FirstPos(s, Dagger) = 0 THEN <<>>
    ELSE SubSeq(s, FirstPos(s, Dagger) + 1, Len(s))
StarToDagger(s) ==
    IF FirstPos(s, Star) = 0 THEN <<>>
    ELSE LET r == SubSeq(s, FirstPos(s, Star) + 1, Len(s))
         IN  IF FirstPos(r, Dagger) = 0 THEN r
             ELSE SubSeq(r, 1, FirstPos(r, Dagger) - 1)

\* ----------------------------------------------------------- the claims

\* C3: the text main emits after the replace pass never holds two blank
\* lines in a row (three newlines in a row), whatever the persons, families
\* and relations.
C3_NoTwoBlankLines == pc = "written" => ~HasNewlineRun(output, 3)

\* C3's case: the text before the pass held four newlines in a row (a last
\* person without links and no family) and was emitted.
C3_Witness == pc = "written" /\ HasNewlineRun(gedcom, 4)

\* C10: the emitted text holds no empty line at all (no two newlines in a
\* row).
C10_NoBlankLine == pc = "written" => ~HasNewlineRun(output, 2)

\* C4 as amended: the record of every person holds one FAMC line per
\* relation whose target is the person's id, naming the relation's source,
\* and one FAMS line per relation whose source is the person's id, naming
\* the relation's target, whatever the other endpoint is (a family, a
\* person, or no node at all).
C4_LinkPerRelation ==
    pc = "written" =>
        /\ Cardinality(Positions(Lines(output), IndiHeads)) = Len(persons)
        /\ \A k \in 1..Len(persons) :
              LET rec == PersonRecord(k)
              IN  \A x \in EndIds :
                      /\ Count(rec, FamcLine(x)) = Rels(x, persons[k].id)
                      /\ Count(rec, FamsLine(x)) = Rels(persons[k].id, x)

\* C4's case: a relation between two persons, neither id a family's, and the
\* FAMC line it gives its target.
C4_Witness ==
    /\ pc = "written"
    /\ \E k \in 1..Len(persons) : \E j \in 1..Len(relations) :
          /\ relations[j].target = persons[k].id
          /\ relations[j].source \in PersonIds \ (FamilyIds \cup {persons[k].id})
          /\ Count(PersonRecord(k), FamcLine(relations[j].source)) = 1

\* C4 as stated: the links are those of the relations whose other endpoint
\* is a family, and no other relation gives a link.
C4_LinkPerFamilyRelation ==
    pc = "written" =>
        \A k \in 1..Len(persons) :
            LET rec == PersonRecord(k)
            IN  \A x \in EndIds :
                    /\ Count(rec, FamcLine(x)) =
                          (IF x \in FamilyIds THEN Rels(x, persons[k].id) ELSE 0)
                    /\ Count(rec, FamsLine(x)) =
                          (IF x \in FamilyIds THEN Rels(persons[k].id, x) ELSE 0)

\* Two persons, each married into the one family, which has one child
\* relation.
IsExample ==
    /\ Len(persons) = 2 /\ persons[1].id # persons[2].id
    /\ Len(families) = 1 /\ Len(relations) = 3
    /\ \A k \in 1..2 : Rels(persons[k].id, families[1].id) = 1
    /\ \E j \in 1..3 :
          /\ relations[j].source = families[1].id
          /\ relations[j].target # families[1].id

HusbLines == {HusbLine(x) : x \in EndIds}
ChilLines == {ChilLine(x) : x \in EndIds}

\* The number of lines of a record that are in S.
CountIn(record, S) == Cardinality({i \in 1..Len(record) : record[i] \in S})

\* The number of families of the id.
FamiliesOf(id) == Cardinality({k \in 1..Len(families) : families[k].id = id})

\* What C5 says of every family, the example left aside: its FAM block is
\* there under its id, in input order (once exactly, or once per family of
\* the id), with one CHIL line per relation from it and one HUSB line per
\* relation to it.
FamilyBlocks(once) ==
    /\ Cardinality(Positions(Lines(output), FamHeads)) = Len(families)
    /\ \A k \in 1..Len(families) :
          /\ Count(Lines(output), FamHead(families[k].id)) =
                (IF once THEN 1 ELSE FamiliesOf(families[k].id))
          /\ Lines(output)[Kth(Positions(Lines(output), FamHeads), k)] =
                FamHead(families[k].id)
          /\ LET rec == FamilyRecord(k)
             IN  \A x \in EndIds :
                     /\ Count(rec, ChilLine(x)) = Rels(families[k].id, x)
                     /\ Count(rec, HusbLine(x)) = Rels(x, families[k].id)

\* C5 as amended: every family has its FAM block, in input order, under its
\* graph-derived id (one block per family of that id: exactly one, the ids
\* being distinct), with one CHIL line per relation whose source is the
\* family's id and one HUSB line per relation whose target is it; the
\* example graph gives exactly one FAM block, with two HUSB lines (one per
\* married person) and one CHIL line.
C5_FamilyBlocks ==
    pc = "written" =>
        /\ FamilyBlocks(FALSE)
        /\ IsExample =>
              /\ Cardinality(Positions(Lines(output), FamHeads)) = 1
              /\ CountIn(FamilyRecord(1), HusbLines) = 2
              /\ CountIn(FamilyRecord(1), ChilLines) = 1

\* C5's case: the example graph, rendered and emitted.
C5_Witness ==
    /\ pc = "written" /\ IsExample
    /\ CountIn(FamilyRecord(1), HusbLines) = 2

\* C5 as stated: exactly one FAM block per family id, and in the example
\* graph exactly one FAM block with one HUSB line.
C5_ExampleOneHusb ==
    pc = "written" =>
        /\ FamilyBlocks(TRUE)
        /\ IsExample =>
              /\ Cardinality(Positions(Lines(output), FamHeads)) = 1
              /\ CountIn(FamilyRecord(1), HusbLines) = 1

\* Every id of the document is one id2int converts.
AllIdsValid ==
    /\ \A i \in 1..Len(nodes) : id2int(nodes[i].id).err = "none"
    /\ \A i \in 1..Len(edges) : EdgeError(edges[i]) = "none"

\* C1: parse_data cuts every flattened label at its markers, present or
\* not: the name is what precedes the star (cleaned and trimmed), the birth
\* what lies between the star and the dagger, the death what follows the
\* dagger; without markers birth and death are empty and the name is the
\* whole label.
C1_SplitAtMarkers ==
    Parsed =>
        \A k \in 1..Len(persons) :
            /\ persons[k].name =
                  Strip(REGEX_NAME_PREFIX_sub(BeforeStar(Data(k))))
            /\ persons[k].birth = parse_date(StarToDagger(Data(k)))
            /\ persons[k].death = parse_date(AfterDagger(Data(k)))

\* The places of the dots of s.
Dots(s) == {i \in 1..Len(s) : s[i] = "."}

\* s is <day>.<month>.<year>, all digits, the day and the month of a length
\* in lens, the year of four digits, and names a day of the calendar.
IsDate(s, lens) ==
    /\ Cardinality(Dots(s)) = 2
    /\ LET i == Kth(Dots(s), 1)
           j == Kth(Dots(s), 2)
           d == SubSeq(s, 1, i - 1)
           m == SubSeq(s, i + 1, j - 1)
           y == SubSeq(s, j + 1, Len(s))
       IN  /\ Len(d) \in lens /\ Len(m) \in lens /\ Len(y) = 4
           /\ AllDigits(d) /\ AllDigits(m) /\ AllDigits(y)
           /\ DecVal(y) >= 1
           /\ DecVal(m) \in 1..12
           /\ DecVal(d) \in 1..DaysInMonth(DecVal(m), DecVal(y))

\* The date s names, s being <day>.<month>.<year>.
DateOf(s) ==
    [day |-> DecVal(SubSeq(s, 1, Kth(Dots(s), 1) - 1)),
     month |-> DecVal(SubSeq(s, Kth(Dots(s), 1) + 1, Kth(Dots(s), 2) - 1)),
     year |-> DecVal(SubSeq(s, Kth(Dots(s), 2) + 1, Len(s)))]

BirthField(k) == Strip(REGEX_SPLIT_PERON_DATA(Data(k)).birth)
DeathField(k) == Strip(REGEX_SPLIT_PERON_DATA(Data(k)).death)

\* C9 as amended: a trimmed birth or death substring is parsed into a date
\* exactly when it is day.month.year with a day and a month of one or two
\* digits (the leading zero is optional: "1.1.1900" is 1 January 1900), a
\* year of four digits, and names an existing calendar day; every other
\* substring yields an absent date.
C9_OneOrTwoDigits ==
    Parsed =>
        \A k \in 1..Len(persons) :
            /\ persons[k].birth =
                  (IF IsDate(BirthField(k), {1, 2}) THEN DateOf(BirthField(k))
                   ELSE NoDate)
            /\ persons[k].death =
                  (IF IsDate(DeathField(k), {1, 2}) THEN DateOf(DeathField(k))
                   ELSE NoDate)

\* C9's case: the birth substring "1.1.1900", parsed as 1 January 1900.
C9_Witness ==
    /\ Parsed
    /\ \E k \in 1..Len(persons) :
          /\ BirthField(k) = Date1900
          /\ persons[k].birth = [day |-> 1, month |-> 1, year |-> 1900]

\* C9 as stated: a substring is parsed into a date only if its day and its
\* month have exactly two digits.
C9_TwoDigitsOnly ==
    Parsed =>
        \A k \in 1..Len(persons) :
            /\ persons[k].birth # NoDate => IsDate(BirthField(k), {2})
            /\ persons[k].death # NoDate => IsDate(DeathField(k), {2})

\* A record holds the block tag ("1 BIRT", "1 DEAT") once, followed by the
\* line of the date, or does not hold the tag.
HasDateBlock(rec, tag, date) ==
    /\ Count(rec, tag) = 1
    /\ \E i \in 1..(Len(rec) - 1) :
          rec[i] = tag /\ rec[i + 1] = "2 DATE " \o strftime(date)
NoDateBlock(rec, tag) == Count(rec, tag) = 0

\* C2: a birth or death substring that is empty or no date never ends the
\* run (only an id or a label without text does); the slot is absent, the
\* other slot and the name are what they are without it, and the record
\* holds a BIRT (DEAT) block exactly when the birth (death) was parsed.
C2_BadDateNotFatal ==
    /\ (pc # "start" /\ AllIdsValid /\ ~HasNoText(nodes)) => Parsed
    /\ Parsed =>
          \A k \in 1..Len(persons) :
              /\ ~IsDate(BirthField(k), {1, 2}) =>
                    /\ persons[k].birth = NoDate
                    /\ IsDate(DeathField(k), {1, 2}) => persons[k].death # NoDate
              /\ ~IsDate(DeathField(k), {1, 2}) =>
                    /\ persons[k].death = NoDate
                    /\ IsDate(BirthField(k), {1, 2}) => persons[k].birth # NoDate
              /\ persons[k].name = Strip(REGEX_NAME_PREFIX_sub(
                                      REGEX_SPLIT_PERON_DATA(Data(k)).name))
    /\ pc = "written" =>
          /\ Cardinality(Positions(Lines(output), IndiHeads)) = Len(persons)
          /\ \A k \in 1..Len(persons) :
                LET rec == PersonRecord(k)
                IN  /\ IF persons[k].birth # NoDate
                       THEN HasDateBlock(rec, "1 BIRT", persons[k].birth)
                       ELSE NoDateBlock(rec, "1 BIRT")
                    /\ IF persons[k].death # NoDate
                       THEN HasDateBlock(rec, "1 DEAT", persons[k].death)
                       ELSE NoDateBlock(rec, "1 DEAT")

\* C2's case: the birth "31.02.2000" is no day of the calendar, the death
\* is a date; the record was emitted with a DEAT block and no BIRT block.
C2_Witness ==
    /\ pc = "written"
    /\ \E k \in 1..Len(persons) :
          /\ BirthField(k) = Date31Feb
          /\ persons[k].birth = NoDate
          /\ persons[k].death # NoDate
          /\ NoDateBlock(PersonRecord(k), "1 BIRT")
          /\ HasDateBlock(PersonRecord(k), "1 DEAT", persons[k].death)

\* C6: parse_nodes makes of every node exactly one of a person or a family,
\* a person exactly when one of its labels has text that is not blank, also
\* when a node has no label element or a label element without text: the
\* persons and the families together are as many as the nodes.
C6_TotalPartition ==
    (pc # "start" /\ AllIdsValid) =>
        /\ Parsed
        /\ Len(persons) + Len(families) = Len(nodes)
        /\ Len(persons) = Len(PersonNodes)

\* The one node whose label is "John (2) Smith*03.03.1920".
IsJohnSmith ==
    /\ Len(nodes) = 1
    /\ nodes[1].labels = <<Text(JohnSmith \o <<Star>> \o Date1920)>>

\* The name field holds one group (<digits>), between the places i and j,
\* and no other parenthesis.
OneGroup(f, i, j) ==
    /\ f[i] = "(" /\ f[j] = ")" /\ j > i + 1
    /\ \A h \in (i + 1)..(j - 1) : f[h] \in Digits
    /\ \A h \in (1..Len(f)) \ {i, j} : f[h] \notin {"(", ")"}

\* What C7 says of every name: a group (<digits>) is removed, what is left
\* on both sides is kept as it is, and the result is trimmed.
GroupRemoved ==
    Parsed =>
        \A k \in 1..Len(persons) :
            LET f == REGEX_SPLIT_PERON_DATA(Data(k)).name
            IN  \A i, j \in 1..Len(f) :
                    OneGroup(f, i, j) =>
                        persons[k].name =
                            Strip(SubSeq(f, 1, i - 1) \o SubSeq(f, j + 1, Len(f)))

\* What C7 says of its example, the name line being line.
JohnSmithRecord(line) ==
    (pc = "written" /\ IsJohnSmith) =>
        /\ Len(persons) = 1
        /\ PersonRecord(1) = <<line, "1 BIRT", "2 DATE 03 MAR 1920">>

\* C7 as amended: a group (<digits>) of a name is removed and the result
\* trimmed, the blanks on both sides of the group staying: the label
\* "John (2) Smith*03.03.1920" yields the name "John  Smith" (two blanks),
\* the birth 03 MAR 1920 and no death field in the record.
C7_GroupRemovedBlanksKept ==
    GroupRemoved /\ JohnSmithRecord("1 NAME John  Smith")

\* C7's case: the example label, parsed and emitted.
C7_Witness ==
    /\ pc = "written" /\ IsJohnSmith
    /\ Count(PersonRecord(1), "1 NAME John  Smith") = 1

\* C7 as stated: the example yields the name "John Smith".
C7_NameJohnSmith ==
    GroupRemoved /\ JohnSmithRecord("1 NAME John Smith")

\* An id that is not empty and begins with none of the prefixes.
BadPrefix(id, prefixes) == id # <<>> /\ id[1] \notin prefixes

\* Every id of the document: of the nodes, and of the edges and their ends.
AllIdStrings ==
    {nodes[i].id : i \in 1..Len(nodes)}
        \cup UNION {{edges[i].id, edges[i].source, edges[i].target} :
                       i \in 1..Len(edges)}

\* The run failed and made no person and no family.
NothingProduced ==
    pc = "failed" /\ error # "none" /\ persons = <<>> /\ families = <<>>

\* C8 as amended: a node whose id begins with neither n nor e ends the run
\* in a fatal failure with no person or family produced (the assertion's,
\* when the node is the only one and its labels have text); an id, of a node
\* or of an edge, is converted to an integer only when it begins with n or
\* with e, whichever element it belongs to, and the assertion fails for no
\* other id.
C8_PrefixNOrE ==
    pc # "start" =>
        /\ \A i \in 1..Len(nodes) :
              BadPrefix(nodes[i].id, {"n", "e"}) =>
                  /\ NothingProduced
                  /\ (Len(nodes) = 1 /\ ~HasNoText(nodes)) =>
                        error = "AssertionError"
        /\ Parsed => \A id \in AllIdStrings : id # <<>> /\ id[1] \in {"n", "e"}
        /\ error = "AssertionError" =>
              \E id \in AllIdStrings : BadPrefix(id, {"n", "e"})

\* C8's case: a node whose id begins with x, and the assertion failed.
C8_Witness ==
    /\ pc = "failed" /\ error = "AssertionError"
    /\ \E i \in 1..Len(nodes) : BadPrefix(nodes[i].id, {"n", "e"})

\* C8 as stated: a node whose id does not begin with n ends the run with
\* nothing produced, and an id is converted only under the prefix of its own
\* element type (n for a node and the ends of an edge, e for an edge).
C8_PrefixOfOwnType ==
    pc # "start" =>
        /\ \A i \in 1..Len(nodes) :
              BadPrefix(nodes[i].id, {"n"}) => NothingProduced
        /\ Parsed =>
              /\ \A i \in 1..Len(nodes) : ~BadPrefix(nodes[i].id, {"n"})
              /\ \A i \in 1..Len(edges) :
                    /\ ~BadPrefix(edges[i].id, {"e"})
                    /\ ~BadPrefix(edges[i].source, {"n"})
                    /\ ~BadPrefix(edges[i].target, {"n"})

=============================================================================
